---- MODULE Spec2Model ----
(***************************************************************************)
(* Model of Project2.py: the depth-bounded, memoized DFS that builds the   *)
(* dependency graph (build_dependency_graph_dfs), the Dependency Source    *)
(* it calls (fetch_dependencies) and the cycle-detecting DFS that derives  *)
(* the load order (_dfs_sort, get_dependency_load_order), driven as main() *)
(* drives them.                                                            *)
(***************************************************************************)
EXTENDS Integers, Sequences, FiniteSets, TLC

(***************************************************************************)
(* Package names are strings; they are modelled as tuples of characters so *)
(* that the substring test of the filter is computed, not assumed.         *)
(***************************************************************************)
A == <<"a">>
B == <<"b">>
C == <<"c">>
D == <<"d", "b">>

\* Names that may be keys of the fixture / registry document.
DocKeys == {A, B, C}
\* Every package name that occurs; D is only ever referenced, it has no
\* entry of its own in any document.
Pkgs == DocKeys \cup {D}

\* Bounds of the model.
MaxDeps == 2
MaxDepthCfg == 3
MaxVersions == 2

\* The configured substring filters that are explored ("" is "no filter").
Filters == {<< >>, <<"b">>}

\* Python's None where a package document is expected.
None == [present |-> FALSE]
\* fetch_dependencies has no attribute test_graph yet.
Unset == [loaded |-> FALSE]
\* get_direct_dependencies_npm has not been applied yet.
NoLookup == [done |-> FALSE, raised |-> FALSE, deps |-> {}]

----------------------------------------------------------------------------
VARIABLES
    params,             \* validated configuration (repo_mode, max_depth, ...)
    registry,           \* the document behind the Dependency Source
    fixture_ok,         \* whether the fixture file can be opened and decoded
    test_graph,         \* fetch_dependencies.test_graph, Unset before the load
    graph,              \* graph_adj_list: key -> set of dependency names
    visited,            \* visited_path (path-set)
    resolved_packages,  \* resolved_nodes (resolved-set)
    viz_nodes,          \* names passed to viz_graph.node
    viz_edges,          \* pairs passed to viz_graph.edge
    stack,              \* call stack of build_dependency_graph_dfs
    fetch_count,        \* number of fetch_dependencies calls per package
    fetch_failed,       \* packages whose fetch ended in a failure
    fixture_reads,      \* number of times the fixture file was opened
    npm_data,           \* package_data given to get_direct_dependencies_npm
    npm_spec,           \* version_spec given to get_direct_dependencies_npm
    npm_result,         \* what get_direct_dependencies_npm ended in
    main_pc,            \* position of main()
    exit_status,        \* process exit status, -1 while running
    sort_stack,         \* call stack of _dfs_sort
    sort_visited,       \* visited of get_dependency_load_order
    recursion_stack,    \* recursion_stack of get_dependency_load_order
    load_order,         \* the deque load_order
    sort_result         \* what get_dependency_load_order returned / reported

vars == <<params, registry, fixture_ok, test_graph, graph, visited,
          resolved_packages, viz_nodes, viz_edges, stack, fetch_count,
          fetch_failed, fixture_reads, npm_data, npm_spec, npm_result,
          main_pc, exit_status, sort_stack, sort_visited, recursion_stack,
          load_order, sort_result>>

buildVars == <<graph, visited, resolved_packages, viz_nodes, viz_edges,
               stack, fetch_count, fetch_failed, test_graph, fixture_reads>>

sortVars == <<sort_stack, sort_visited, recursion_stack, load_order,
              sort_result>>

npmVars == <<npm_data, npm_spec, npm_result>>

envVars == <<params, registry, fixture_ok, npmVars>>

----------------------------------------------------------------------------
(* Helpers *)

\* Python's `sub in name` for strings: sub occurs as a contiguous run.
IsSubstring(sub, name) ==
    \E i \in 0..(Len(name) - Len(sub)) :
        \A j \in 1..Len(sub) : name[i + j] = sub[j]

\* All orders in which the members of a set can be enumerated.
RECURSIVE Orders(_)
Orders(S) ==
    IF S = {} THEN {<< >>}
    ELSE UNION {{<<x>> \o t : t \in Orders(S \ {x})} : x \in S}

Range(s) == {s[i] : i \in 1..Len(s)}

Top(stk) == stk[Len(stk)]
Pop(stk) == SubSeq(stk, 1, Len(stk) - 1)
ReplaceTop(stk, f) == [stk EXCEPT ![Len(stk)] = f]

EmptyGraph == [p \in {} |-> {}]

\* graph[k] = s, adding the key when it is missing.
SetKey(g, k, s) == [p \in (DOMAIN g) \cup {k} |-> IF p = k THEN s ELSE g[p]]

\* The members of g[n], none when n is no key.
Succ(g, n) == IF n \in DOMAIN g THEN g[n] ELSE {}

\* The nodes reachable from the set S along the edges of g, S included.
RECURSIVE Reach(_, _)
Reach(g, S) ==
    LET T == S \cup UNION {Succ(g, n) : n \in S}
    IN  IF T = S THEN S ELSE Reach(g, T)

\* The documents a Dependency Source may hold: every key lists at most
\* MaxDeps distinct names.
Documents ==
    [DocKeys -> {S \in SUBSET Pkgs : Cardinality(S) <= MaxDeps}]

----------------------------------------------------------------------------
(* Dependency Source *)

LatestVersion == "1.0.0"
\* Version specifier a registry document attaches to each dependency.
DepSpec == "^1"
\* Placeholder specifier of the fixture backend.
TestVer == "test_ver"

\* The registry's JSON document for a package whose entry lists deps.
PackageDocument(deps) ==
    [present |-> TRUE, has_other |-> TRUE, has_dist_tags |-> TRUE,
     has_latest |-> TRUE, latest |-> LatestVersion, has_versions |-> TRUE,
     versions |-> <<[ver |-> LatestVersion, has_dependencies |-> TRUE,
                     dependencies |-> deps]>>]

VersionKeys(package_data) ==
    IF package_data.has_versions
    THEN {package_data.versions[i].ver : i \in 1..Len(package_data.versions)}
    ELSE {}

VersionData(package_data, v) ==
    LET i == CHOOSE k \in 1..Len(package_data.versions) :
                 package_data.versions[k].ver = v
    IN  package_data.versions[i]

\* The outcomes of the HTTP lookup for one package: the decoded document,
\* None (URLError / JSONDecodeError are caught inside), or an exception of
\* another type that escapes.  A name the registry does not know answers
\* with an HTTP error, which is a URLError.
fetch_package_data_npm(package_name) ==
    {[raised |-> FALSE, data |-> None], [raised |-> TRUE, data |-> None]}
    \cup (IF package_name \in DOMAIN registry
          THEN {[raised |-> FALSE,
                 data |-> PackageDocument(registry[package_name])]}
          ELSE {})

\* get_direct_dependencies_npm: [raised, deps].  raised is a KeyError or
\* IndexError of the subscripting in the fallback branches.  A document is
\* falsy (line 80) when it is None or a dict without any key.
get_direct_dependencies_npm(package_data, version_spec) ==
    LET Empty == [raised |-> FALSE, deps |-> {}]
        Raise == [raised |-> TRUE, deps |-> {}]
        HasLatest == package_data.has_dist_tags /\ package_data.has_latest
        Last == package_data.versions[Len(package_data.versions)].ver
        Select(v) ==
            IF v = "" \/ v \notin VersionKeys(package_data)
            THEN Empty
            ELSE LET vd == VersionData(package_data, v)
                 IN  [raised |-> FALSE,
                      deps |-> IF vd.has_dependencies
                               THEN vd.dependencies ELSE {}]
    IN  IF ~package_data.present
            \/ (/\ ~package_data.has_other
                /\ ~package_data.has_dist_tags
                /\ ~package_data.has_versions)
        THEN Empty
        ELSE IF version_spec = "latest"
        THEN IF HasLatest THEN Select(package_data.latest)
             ELSE IF ~package_data.has_versions THEN Raise
             ELSE IF Len(package_data.versions) > 0 THEN Select(Last)
             ELSE Empty
        ELSE IF version_spec \in VersionKeys(package_data)
        THEN Select(version_spec)
        ELSE IF HasLatest THEN Select(package_data.latest)
        ELSE IF ~package_data.has_versions THEN Raise
        ELSE IF Len(package_data.versions) = 0 THEN Raise
        ELSE Select(Last)

\* A backend that opens the fixture file on every call.
NeedsLoad_Always == TRUE

\* Line 117: not hasattr(fetch_dependencies, 'test_graph').
NeedsLoad == ~test_graph.loaded

\* fetch_dependencies: the set of possible outcomes of one call,
\* [raised, failed, deps, spec, cache, read]: raised = an exception leaves
\* the call, failed = the source could not answer, deps = the names
\* returned, spec = the specifier paired with each, cache = test_graph
\* afterwards, read = the fixture file was opened.
fetch_dependencies(package_name, version_spec) ==
    IF params.repo_mode = "real"
    THEN {LET r == IF d.raised THEN [raised |-> TRUE, deps |-> {}]
                   ELSE get_direct_dependencies_npm(d.data, version_spec)
          IN  [raised |-> r.raised,
               failed |-> r.raised \/ ~d.data.present,
               deps |-> r.deps, spec |-> DepSpec, cache |-> test_graph,
               read |-> FALSE]
          : d \in fetch_package_data_npm(package_name)}
    ELSE IF params.repo_mode = "test_file"
    THEN IF NeedsLoad /\ ~fixture_ok
         THEN {[raised |-> TRUE, failed |-> TRUE, deps |-> {},
                spec |-> TestVer, cache |-> test_graph, read |-> TRUE]}
         ELSE LET doc == IF NeedsLoad THEN registry ELSE test_graph.doc
              IN  {[raised |-> FALSE, failed |-> FALSE,
                    deps |-> IF package_name \in DOMAIN doc
                             THEN doc[package_name] ELSE {},
                    spec |-> TestVer,
                    cache |-> [loaded |-> TRUE, doc |-> doc],
                    read |-> NeedsLoad]}
    ELSE IF params.repo_mode = "test_url"
    THEN {[raised |-> TRUE, failed |-> TRUE, deps |-> {},
           spec |-> TestVer, cache |-> test_graph, read |-> FALSE]}
    ELSE {[raised |-> FALSE, failed |-> FALSE, deps |-> {},
           spec |-> TestVer, cache |-> test_graph, read |-> FALSE]}

----------------------------------------------------------------------------
(* Graph Builder: build_dependency_graph_dfs, one call frame per entry of  *)
(* stack, the innermost call last.                                         *)

Frame(package_name, version_spec, current_depth) ==
    [package_name |-> package_name, version_spec |-> version_spec,
     current_depth |-> current_depth, pc |-> "entry",
     dependencies |-> << >>]

\* Filtered comparing for equality instead of containment.
Filtered_Equal(package_name) ==
    /\ params.filter_substring # << >>
    /\ params.filter_substring = package_name

\* Lines 144-146: the substring filter.
Filtered(package_name) ==
    /\ params.filter_substring # << >>
    /\ IsSubstring(params.filter_substring, package_name)

\* Guarded without the depth guard of lines 153-154.
Guarded_NoDepth(package_name, current_depth) ==
    \/ package_name \in visited
    \/ package_name \in resolved_packages

\* Guarded with the depth compared by > instead of >=.
Guarded_DepthOffByOne(package_name, current_depth) ==
    \/ package_name \in visited
    \/ current_depth > params.max_depth
    \/ package_name \in resolved_packages

\* Guarded without the memoization guard of lines 156-157.
Guarded_NoMemo(package_name, current_depth) ==
    \/ package_name \in visited
    \/ current_depth >= params.max_depth

\* Lines 150-157: the path, depth and memoization guards.
Guarded(package_name, current_depth) ==
    \/ package_name \in visited
    \/ current_depth >= params.max_depth
    \/ package_name \in resolved_packages

\* An except clause that lets the exception through.
Caught_Never(outcome) == FALSE

\* Line 165: `except Exception` catches whatever fetch_dependencies raises.
Caught(outcome) == outcome.raised

\* AddEdge recording the edge under the dependency instead.
AddEdge_Reversed(g, package_name, dep_name) ==
    SetKey(g, dep_name, Succ(g, dep_name) \cup {package_name})

\* Backtrack that leaves the package on the path.
Backtrack_Keep(path, package_name) == path

\* Line 184: visited.remove(package_name).
Backtrack(path, package_name) == path \ {package_name}

\* AddEdge leaving out a dependency that is already resolved.
AddEdge_SkipResolved(g, package_name, dep_name) ==
    IF dep_name \in resolved_packages THEN g
    ELSE [g EXCEPT ![package_name] = @ \cup {dep_name}]

\* A return that forgets to memoize the package.
Resolve_Skip(done, package_name) == done

\* Line 185: resolved_packages.add(package_name).
Resolve(done, package_name) == done \cup {package_name}

\* Line 170: graph[package_name].add(dep_name).
AddEdge(g, package_name, dep_name) ==
    [g EXCEPT ![package_name] = @ \cup {dep_name}]

\* Lines 144-161: entry of a call up to the fetch.
BuildEnter ==
    /\ main_pc = "build"
    /\ stack # << >>
    /\ Top(stack).pc = "entry"
    /\ LET f == Top(stack)
           p == f.package_name
       IN  IF Filtered(p)
           THEN /\ stack' = Pop(stack)
                /\ UNCHANGED <<viz_nodes, visited, graph>>
           ELSE /\ viz_nodes' = viz_nodes \cup {p}
                /\ IF Guarded(p, f.current_depth)
                   THEN /\ stack' = Pop(stack)
                        /\ UNCHANGED <<visited, graph>>
                   ELSE /\ visited' = visited \cup {p}
                        /\ graph' = IF p \in DOMAIN graph THEN graph
                                    ELSE SetKey(graph, p, {})
                        /\ stack' = ReplaceTop(stack, [f EXCEPT !.pc = "fetch"])
    /\ UNCHANGED <<resolved_packages, viz_edges, fetch_count, fetch_failed,
                   test_graph, main_pc, exit_status>>
    /\ UNCHANGED fixture_reads
    /\ UNCHANGED <<envVars, sortVars>>

\* Lines 163-167: the call of the Dependency Source inside try/except.  An
\* exception that the except clause does not catch unwinds every frame and
\* ends main() at lines 317-323 with status 1.
BuildFetch ==
    /\ main_pc = "build"
    /\ stack # << >>
    /\ Top(stack).pc = "fetch"
    /\ LET f == Top(stack)
           p == f.package_name
       IN  \E outcome \in fetch_dependencies(p, f.version_spec) :
           /\ fetch_count' = [fetch_count EXCEPT ![p] = @ + 1]
           /\ test_graph' = outcome.cache
           /\ fixture_reads' = IF outcome.read THEN fixture_reads + 1
                               ELSE fixture_reads
           /\ fetch_failed' = IF outcome.failed THEN fetch_failed \cup {p}
                              ELSE fetch_failed
           /\ IF outcome.raised /\ ~Caught(outcome)
              THEN /\ stack' = << >>
                   /\ main_pc' = "exit"
                   /\ exit_status' = 1
              ELSE /\ \E order \in Orders(IF outcome.raised THEN {}
                                          ELSE outcome.deps) :
                        stack' = ReplaceTop(stack,
                            [f EXCEPT !.pc = "loop",
                                      !.dependencies =
                                          [i \in 1..Len(order) |->
                                              [name |-> order[i],
                                               spec |-> outcome.spec]]])
                   /\ UNCHANGED <<main_pc, exit_status>>
    /\ UNCHANGED <<graph, visited, resolved_packages, viz_nodes, viz_edges>>
    /\ UNCHANGED <<envVars, sortVars>>

\* Lines 169-182: one iteration of the loop over dependencies.items(): the
\* edge is recorded and the recursive call is entered.
BuildLoop ==
    /\ main_pc = "build"
    /\ stack # << >>
    /\ Top(stack).pc = "loop"
    /\ Top(stack).dependencies # << >>
    /\ LET f == Top(stack)
           p == f.package_name
           dep == Head(f.dependencies)
       IN  /\ graph' = AddEdge(graph, p, dep.name)
           /\ viz_edges' = viz_edges \cup {<<p, dep.name>>}
           /\ stack' = Append(
                  ReplaceTop(stack,
                      [f EXCEPT !.dependencies = Tail(f.dependencies)]),
                  Frame(dep.name, dep.spec, f.current_depth + 1))
    /\ UNCHANGED <<visited, resolved_packages, viz_nodes, fetch_count,
                   fetch_failed, test_graph, main_pc, exit_status>>
    /\ UNCHANGED fixture_reads
    /\ UNCHANGED <<envVars, sortVars>>

\* Line 184: the loop is exhausted, the package leaves the path-set.
BuildBacktrack ==
    /\ main_pc = "build"
    /\ stack # << >>
    /\ Top(stack).pc = "loop"
    /\ Top(stack).dependencies = << >>
    /\ visited' = Backtrack(visited, Top(stack).package_name)
    /\ stack' = ReplaceTop(stack, [Top(stack) EXCEPT !.pc = "resolve"])
    /\ UNCHANGED <<graph, resolved_packages, viz_nodes, viz_edges,
                   fetch_count, fetch_failed, test_graph, main_pc,
                   exit_status>>
    /\ UNCHANGED fixture_reads
    /\ UNCHANGED <<envVars, sortVars>>

\* Line 185: the package enters the resolved-set and the call returns.
BuildResolve ==
    /\ main_pc = "build"
    /\ stack # << >>
    /\ Top(stack).pc = "resolve"
    /\ resolved_packages' = Resolve(resolved_packages, Top(stack).package_name)
    /\ stack' = Pop(stack)
    /\ UNCHANGED <<graph, visited, viz_nodes, viz_edges, fetch_count,
                   fetch_failed, test_graph, main_pc, exit_status>>
    /\ UNCHANGED fixture_reads
    /\ UNCHANGED <<envVars, sortVars>>

----------------------------------------------------------------------------
(* Topological Sorter: _dfs_sort, one call frame per entry of sort_stack,  *)
(* and get_dependency_load_order around it.                                *)

SortFrame(node) == [node |-> node, pc |-> "entry", remaining |-> {}]

\* An assignment in place of the prepend.
AppendLeft_Replace(dq, x) == <<x>>

\* deque.appendleft
AppendLeft(dq, x) == <<x>> \o dq

\* Only the keys, without the members of the adjacency sets.
AllNodes_KeysOnly(g) == DOMAIN g

\* Lines 210-212: the keys and every member of an adjacency set.
AllNodes(g) == (DOMAIN g) \cup UNION {g[k] : k \in DOMAIN g}

\* A sorter that never recognises a gray node.
OnRecursionStack_Never(dependency) == FALSE

\* Line 201: the dependency is gray, i.e. on the current recursion stack.
OnRecursionStack(dependency) == dependency \in recursion_stack

NoResult == [kind |-> "none", order |-> << >>]

\* Lines 189-196: a node without a key is emitted at once; a node with a
\* key is marked visited and put on the recursion stack.
SortEnter ==
    /\ main_pc = "sort"
    /\ sort_stack # << >>
    /\ Top(sort_stack).pc = "entry"
    /\ LET f == Top(sort_stack)
           node == f.node
       IN  IF node \notin DOMAIN graph
           THEN /\ load_order' = IF node \notin sort_visited
                                 THEN AppendLeft(load_order, node)
                                 ELSE load_order
                /\ sort_visited' = sort_visited \cup {node}
                /\ sort_stack' = Pop(sort_stack)
                /\ UNCHANGED recursion_stack
           ELSE /\ sort_visited' = sort_visited \cup {node}
                /\ recursion_stack' = recursion_stack \cup {node}
                /\ sort_stack' = ReplaceTop(sort_stack,
                       [f EXCEPT !.pc = "loop", !.remaining = graph[node]])
                /\ UNCHANGED load_order
    /\ UNCHANGED <<sort_result, main_pc, exit_status>>
    /\ UNCHANGED <<envVars, buildVars>>

\* Lines 198-202 with 224-226: one iteration over graph[node], a set, in
\* whatever order the set yields its members.  The ValueError of a cycle
\* unwinds to get_dependency_load_order, which returns [].
SortLoop ==
    /\ main_pc = "sort"
    /\ sort_stack # << >>
    /\ Top(sort_stack).pc = "loop"
    /\ \E dependency \in Top(sort_stack).remaining :
        LET f == Top(sort_stack)
            rest == ReplaceTop(sort_stack,
                        [f EXCEPT !.remaining = @ \ {dependency}])
        IN  IF dependency \notin sort_visited
            THEN /\ sort_stack' = Append(rest, SortFrame(dependency))
                 /\ UNCHANGED <<sort_result, main_pc>>
            ELSE IF OnRecursionStack(dependency)
            THEN /\ sort_stack' = << >>
                 /\ sort_result' = [kind |-> "cycle", order |-> << >>]
                 /\ main_pc' = "render"
            ELSE /\ sort_stack' = rest
                 /\ UNCHANGED <<sort_result, main_pc>>
    /\ UNCHANGED <<sort_visited, recursion_stack, load_order, exit_status>>
    /\ UNCHANGED <<envVars, buildVars>>

\* Lines 204-205: every dependency is done, the node is emitted.
SortFinish ==
    /\ main_pc = "sort"
    /\ sort_stack # << >>
    /\ Top(sort_stack).pc = "loop"
    /\ Top(sort_stack).remaining = {}
    /\ recursion_stack' = recursion_stack \ {Top(sort_stack).node}
    /\ load_order' = AppendLeft(load_order, Top(sort_stack).node)
    /\ sort_stack' = Pop(sort_stack)
    /\ UNCHANGED <<sort_visited, sort_result, main_pc, exit_status>>
    /\ UNCHANGED <<envVars, buildVars>>

\* Line 228: the outermost _dfs_sort returned, the order is handed back.
SortReturn ==
    /\ main_pc = "sort"
    /\ sort_stack = << >>
    /\ sort_result' = [kind |-> "ok", order |-> load_order]
    /\ main_pc' = "render"
    /\ UNCHANGED <<sort_stack, sort_visited, recursion_stack, load_order,
                   exit_status>>
    /\ UNCHANGED <<envVars, buildVars>>

----------------------------------------------------------------------------
(* main() *)

\* Lines 272-297: fresh graph, path-set and resolved-set, then the build
\* from the configured root at depth 0.
MainCallBuild ==
    /\ main_pc = "start"
    /\ main_pc' = "build"
    /\ stack' = <<Frame(params.package_name, params.package_version, 0)>>
    /\ UNCHANGED <<graph, visited, resolved_packages, viz_nodes, viz_edges,
                   fetch_count, fetch_failed, test_graph, exit_status>>
    /\ UNCHANGED fixture_reads
    /\ UNCHANGED <<envVars, sortVars>>

\* Lines 303 and 208-223: the build returned; the sorter checks that the
\* start node occurs in the graph and starts _dfs_sort on it.
MainCallSort ==
    /\ main_pc = "build"
    /\ stack = << >>
    /\ IF params.package_name \notin AllNodes(graph)
       THEN /\ sort_result' = [kind |-> "notfound", order |-> << >>]
            /\ main_pc' = "render"
            /\ UNCHANGED <<sort_stack, sort_visited, recursion_stack,
                           load_order>>
       ELSE /\ load_order' = << >>
            /\ sort_visited' = {}
            /\ recursion_stack' = {}
            /\ sort_stack' = <<SortFrame(params.package_name)>>
            /\ main_pc' = "sort"
            /\ UNCHANGED sort_result
    /\ UNCHANGED exit_status
    /\ UNCHANGED <<envVars, buildVars>>

\* Lines 304-314 and the end of main(): the order is printed when it is
\* non-empty, the picture is rendered, the process ends normally.
MainFinish ==
    /\ main_pc = "render"
    /\ main_pc' = "done"
    /\ exit_status' = 0
    /\ UNCHANGED <<envVars, buildVars, sortVars>>

----------------------------------------------------------------------------
(* Specifications *)

Modes == {"real", "test_file", "test_url"}

ParamsSet ==
    [package_name : {A}, package_version : {"latest"}, repo_mode : Modes,
     max_depth : 0..MaxDepthCfg, filter_substring : Filters]

NoDocument == [k \in {} |-> {}]

\* The state main() is in when it reaches line 272.  What the run never
\* reads is fixed: the document under test_url and under a fixture file
\* that cannot be read, and the entries of names that no chain of
\* dependencies from the root leads to, which are left empty.
Init ==
    /\ params \in ParamsSet
    /\ fixture_ok \in BOOLEAN
    /\ registry \in Documents \cup {NoDocument}
    /\ params.repo_mode # "test_file" => fixture_ok
    /\ (params.repo_mode = "test_url" \/ ~fixture_ok) <=> registry = NoDocument
    /\ \A k \in DOMAIN registry :
           registry[k] # {} => k \in Reach(registry, {params.package_name})
    /\ test_graph = Unset
    /\ graph = EmptyGraph
    /\ visited = {}
    /\ resolved_packages = {}
    /\ viz_nodes = {}
    /\ viz_edges = {}
    /\ stack = << >>
    /\ fetch_count = [p \in Pkgs |-> 0]
    /\ fetch_failed = {}
    /\ fixture_reads = 0
    /\ npm_data = None
    /\ npm_spec = "latest"
    /\ npm_result = NoLookup
    /\ main_pc = "start"
    /\ exit_status = -1
    /\ sort_stack = << >>
    /\ sort_visited = {}
    /\ recursion_stack = {}
    /\ load_order = << >>
    /\ sort_result = NoResult

Next ==
    \/ MainCallBuild
    \/ BuildEnter
    \/ BuildFetch
    \/ BuildLoop
    \/ BuildBacktrack
    \/ BuildResolve
    \/ MainCallSort
    \/ SortEnter
    \/ SortLoop
    \/ SortFinish
    \/ SortReturn
    \/ MainFinish

Spec == Init /\ [][Next]_vars

\* The Topological Sorter as a function of its arguments: any adjacency
\* graph and any start node, at the call of get_dependency_load_order.
SortGraphs ==
    UNION {[K -> {S \in SUBSET Pkgs : Cardinality(S) <= MaxDeps}] :
              K \in SUBSET DocKeys}

InitSort ==
    /\ params \in [package_name : Pkgs, package_version : {"latest"},
                   repo_mode : {"test_file"}, max_depth : {MaxDepthCfg},
                   filter_substring : {<< >>}]
    /\ fixture_ok = TRUE
    /\ registry = NoDocument
    /\ test_graph = Unset
    /\ graph \in SortGraphs
    /\ visited = {}
    /\ resolved_packages = {}
    /\ viz_nodes = {}
    /\ viz_edges = {}
    /\ stack = << >>
    /\ fetch_count = [p \in Pkgs |-> 0]
    /\ fetch_failed = {}
    /\ fixture_reads = 0
    /\ npm_data = None
    /\ npm_spec = "latest"
    /\ npm_result = NoLookup
    /\ main_pc = "build"
    /\ exit_status = -1
    /\ sort_stack = << >>
    /\ sort_visited = {}
    /\ recursion_stack = {}
    /\ load_order = << >>
    /\ sort_result = NoResult

NextSort ==
    \/ MainCallSort
    \/ SortEnter
    \/ SortLoop
    \/ SortFinish
    \/ SortReturn
    \/ MainFinish

SpecSort == InitSort /\ [][NextSort]_vars

\* get_direct_dependencies_npm as a function of its arguments: any decoded
\* registry document (or None) and any version specifier.
Versions == {"1.0.0", "2.0.0"}

VersionEntries ==
    {e \in [ver : Versions, has_dependencies : BOOLEAN,
            dependencies : {{}, {B}}] :
        ~e.has_dependencies => e.dependencies = {}}

VersionSections ==
    {v \in UNION {[1..n -> VersionEntries] : n \in 0..MaxVersions} :
        \A i, j \in 1..Len(v) : i # j => v[i].ver # v[j].ver}

NpmDocuments ==
    {None} \cup
    {d \in [present : {TRUE}, has_other : BOOLEAN, has_dist_tags : BOOLEAN,
            has_latest : BOOLEAN, latest : Versions \cup {""},
            has_versions : BOOLEAN, versions : VersionSections] :
        /\ ~d.has_dist_tags => ~d.has_latest
        /\ ~d.has_latest => d.latest = ""
        /\ ~d.has_versions => d.versions = << >>}

VersionSpecs == {"latest", "1.0.0", DepSpec}

\* Lines 79-108 applied to the given document and specifier.
NpmLookup ==
    /\ ~npm_result.done
    /\ npm_data \in NpmDocuments
    /\ LET r == get_direct_dependencies_npm(npm_data, npm_spec)
       IN  npm_result' = [done |-> TRUE, raised |-> r.raised, deps |-> r.deps]
    /\ UNCHANGED <<npm_data, npm_spec, params, registry, fixture_ok>>
    /\ UNCHANGED <<buildVars, sortVars, main_pc, exit_status>>

InitNpm ==
    /\ params \in [package_name : {A}, package_version : {"latest"},
                   repo_mode : {"real"}, max_depth : {MaxDepthCfg},
                   filter_substring : {<< >>}]
    /\ fixture_ok = TRUE
    /\ registry = NoDocument
    /\ test_graph = Unset
    /\ graph = EmptyGraph
    /\ visited = {}
    /\ resolved_packages = {}
    /\ viz_nodes = {}
    /\ viz_edges = {}
    /\ stack = << >>
    /\ fetch_count = [p \in Pkgs |-> 0]
    /\ fetch_failed = {}
    /\ fixture_reads = 0
    /\ npm_data \in NpmDocuments
    /\ npm_spec \in VersionSpecs
    /\ npm_result = NoLookup
    /\ main_pc = "start"
    /\ exit_status = -1
    /\ sort_stack = << >>
    /\ sort_visited = {}
    /\ recursion_stack = {}
    /\ load_order = << >>
    /\ sort_result = NoResult

NextNpm == NpmLookup

SpecNpm == InitNpm /\ [][NextNpm]_vars

----------------------------------------------------------------------------
(* Vocabulary of the properties *)

\* The build has returned to main().
BuildReturned ==
    \/ main_pc \in {"sort", "render", "done"}
    \/ main_pc = "build" /\ stack = << >>

\* get_dependency_load_order has returned to main().
SortReturned == main_pc \in {"render", "done"}

\* Some cycle of g can be reached from start.
CycleReachable(g, start) ==
    \E n \in Reach(g, {start}) : n \in Reach(g, Succ(g, n))

\* Position of x in the sequence s, 0 when x does not occur.
Pos(s, x) == IF x \in Range(s) THEN CHOOSE i \in 1..Len(s) : s[i] = x ELSE 0

\* In the order s every node of g comes after each of its dependencies.
DependencyFirst(g, s) ==
    \A n \in DOMAIN g : n \in Range(s) =>
        \A d \in g[n] : d \in Range(s) /\ Pos(s, d) < Pos(s, n)

\* The fixture {A: [B, C], B: [], C: [B]} and what the build is said to
\* make of it.
FixtureABC == (A :> {B, C}) @@ (B :> {}) @@ (C :> {B})
FixtureGraphClaimed == (A :> {B, C}) @@ (C :> {B})
FixtureGraphBuilt == (A :> {B, C}) @@ (B :> {}) @@ (C :> {B})

\* The diamond A -> {B, C}, B -> {D}, C -> {D}.
Diamond == (A :> {B, C}) @@ (B :> {D}) @@ (C :> {D})

Root == params.package_name

----------------------------------------------------------------------------
(* C1 *)

\* C1: for every adjacency graph in which no cycle is reachable from the
\* start node, the returned order places every node after all of its
\* direct dependencies, and for the fixture graph the order from A is
\* [B, C, A].
C1_DependencyFirstOrder ==
    (/\ SortReturned
     /\ Root \in AllNodes(graph)
     /\ ~CycleReachable(graph, Root))
    => /\ sort_result.kind = "ok"
       /\ DependencyFirst(graph, sort_result.order)
       /\ (Root = A /\ graph \in {FixtureGraphClaimed, FixtureGraphBuilt})
              => sort_result.order = <<B, C, A>>

----------------------------------------------------------------------------
(* C2 *)

\* The build ran over the fixture {A: [B, C], B: [], C: [B]} from A with
\* max_depth >= 2 and no filter, and has returned.
FixtureBuildReturned ==
    /\ BuildReturned
    /\ params.repo_mode = "test_file"
    /\ fixture_ok
    /\ registry = FixtureABC
    /\ Root = A
    /\ params.max_depth >= 2
    /\ params.filter_substring = << >>

\* C2 as stated: the build over the fixture yields exactly
\* {A: {B, C}, C: {B}}, B having no key of its own.
C2_FixtureGraphWithoutB == FixtureBuildReturned => graph = FixtureGraphClaimed

\* C2 as amended: the build over the fixture yields exactly
\* {A: {B, C}, B: {}, C: {B}}: B is expanded at depth 1 and keeps a key
\* with an empty dependency set.
C2_FixtureGraph == FixtureBuildReturned => graph = FixtureGraphBuilt

C2_Witness == FixtureBuildReturned /\ fetch_count[B] = 1 /\ main_pc = "done"

----------------------------------------------------------------------------
(* C3 *)

\* C3: under repo_mode = test_url a build that reaches a fetch never
\* completes with a graph; the run ends with a non-zero status.
C3_UnsupportedModeFatal ==
    (params.repo_mode = "test_url" /\ \E p \in Pkgs : fetch_count[p] > 0)
    => /\ ~BuildReturned
       /\ exit_status # 0

----------------------------------------------------------------------------
(* C4 *)

\* C4: in a build the Dependency Source is invoked at most once per
\* package name, and for the diamond with max_depth >= 3 exactly once
\* for D.
C4_FetchAtMostOnce ==
    /\ \A p \in Pkgs : fetch_count[p] <= 1
    /\ (/\ BuildReturned
        /\ registry = Diamond
        /\ Root = A
        /\ params.max_depth >= 3
        /\ params.filter_substring = << >>
        /\ fetch_failed \subseteq {D})
       => fetch_count[D] = 1

\* D of the diamond was reached along both paths and fetched once.
C4_Witness ==
    /\ BuildReturned
    /\ registry = Diamond
    /\ Root = A
    /\ D \in Succ(graph, B) /\ D \in Succ(graph, C)
    /\ fetch_count[D] = 1

----------------------------------------------------------------------------
(* C5 *)

\* An upper bound on the steps a call entered at depth d can still take:
\* one step when the depth guard stops it, otherwise entry, fetch, one
\* iteration and one nested call per dependency, backtrack and resolve.
RECURSIVE CallCost(_)
CallCost(d) ==
    IF d >= params.max_depth THEN 1
    ELSE 4 + Cardinality(Pkgs) * (1 + CallCost(d + 1))

FrameCost(f) ==
    CASE f.pc = "entry" -> CallCost(f.current_depth)
      [] f.pc = "fetch" -> CallCost(f.current_depth) - 1
      [] f.pc = "loop" ->
            2 + Len(f.dependencies) * (1 + CallCost(f.current_depth + 1))
      [] f.pc = "resolve" -> 1

RECURSIVE SumCost(_)
SumCost(stk) ==
    IF stk = << >> THEN 0 ELSE FrameCost(Head(stk)) + SumCost(Tail(stk))

BuildMeasure == SumCost(stack)

\* C5: the build terminates with a finite graph whatever the dependency
\* relation: the recursion is never deeper than max_depth + 1 frames, the
\* keys of the graph are package names, and every step of a build strictly
\* decreases a natural-number measure, so no build runs forever.
C5_BuildTerminates ==
    /\ [](/\ Len(stack) <= params.max_depth + 1
          /\ DOMAIN graph \subseteq Pkgs
          /\ BuildMeasure >= 0)
    /\ [][main_pc = "build" /\ stack # << >>
            => BuildMeasure' < BuildMeasure]_vars

\* The build over the cyclic relation A -> B, B -> A has returned.
C5_Witness ==
    /\ BuildReturned
    /\ Succ(registry, A) = {B} /\ Succ(registry, B) = {A}
    /\ graph = (A :> {B}) @@ (B :> {A})

----------------------------------------------------------------------------
(* C6 *)

\* C6: when a cycle is reachable from the start node, the sorter reports
\* the cycle and returns the empty order, never a partial one, and no
\* exception reaches the caller.
C6_CycleReported ==
    /\ main_pc # "exit"
    /\ (SortReturned /\ CycleReachable(graph, Root))
       => sort_result = [kind |-> "cycle", order |-> << >>]

\* A cycle was found after part of the order had been emitted.
C6_Witness ==
    /\ SortReturned
    /\ CycleReachable(graph, Root)
    /\ load_order # << >>
    /\ sort_result.kind = "cycle"

----------------------------------------------------------------------------
(* C7 *)

NameContainsFilter(p) ==
    /\ params.filter_substring # << >>
    /\ IsSubstring(params.filter_substring, p)

\* C7: a package whose name contains the non-empty filter is never
\* fetched, never a key of the graph, never on the path nor resolved, and
\* no call for it gets past its entry.
C7_FilteredNeverExpanded ==
    \A p \in Pkgs : NameContainsFilter(p) =>
        /\ fetch_count[p] = 0
        /\ p \notin DOMAIN graph
        /\ p \notin visited
        /\ p \notin resolved_packages
        /\ \A i \in 1..Len(stack) :
               stack[i].package_name = p => stack[i].pc = "entry"

\* A filtered package that is referenced as a dependency after the build.
C7_Witness ==
    /\ BuildReturned
    /\ params.filter_substring = <<"b">>
    /\ D \in Succ(graph, A)
    /\ C \in DOMAIN graph
    /\ fetch_count[D] = 0

----------------------------------------------------------------------------
(* C8 *)

\* C8: with max_depth = 0 and an unfiltered root the build emits the node
\* event of the root, performs no fetch and returns a graph without edges.
C8_DepthZero ==
    (BuildReturned /\ params.max_depth = 0 /\ ~NameContainsFilter(Root))
    => /\ Root \in viz_nodes
       /\ \A p \in Pkgs : fetch_count[p] = 0
       /\ \A k \in DOMAIN graph : graph[k] = {}
       /\ viz_edges = {}

C8_Witness ==
    /\ BuildReturned
    /\ params.max_depth = 0
    /\ ~NameContainsFilter(Root)
    /\ Root \in viz_nodes

----------------------------------------------------------------------------
(* C9 *)

\* What the Dependency Source holds for a package.
SourceDeps(p) == IF p \in DOMAIN registry THEN registry[p] ELSE {}

\* C9: a fetch failure (registry or fixture backend) never aborts the
\* build: the failed package keeps a key with an empty set, and when the
\* build returns it is off the path and resolved, while every package
\* fetched successfully has all its dependencies recorded and visited.
C9_FetchFailureContained ==
    params.repo_mode \in {"real", "test_file"} =>
        /\ main_pc # "exit"
        /\ \A p \in fetch_failed : p \in DOMAIN graph /\ graph[p] = {}
        /\ BuildReturned =>
               /\ visited = {}
               /\ fetch_failed \subseteq resolved_packages
               /\ \A k \in (DOMAIN graph) \ fetch_failed :
                      /\ graph[k] = SourceDeps(k)
                      /\ \A d \in graph[k] :
                             ~NameContainsFilter(d) => d \in viz_nodes

\* The fetch of B failed and B is finished; the traversal has moved on to
\* its sibling C, which is being expanded.
C9_Witness ==
    /\ main_pc = "build"
    /\ Len(stack) = 2
    /\ stack[1].package_name = A
    /\ stack[2].package_name = C /\ stack[2].pc = "loop"
    /\ B \in fetch_failed
    /\ B \in resolved_packages
    /\ C \notin fetch_failed

----------------------------------------------------------------------------
(* C10 *)

\* C10: the path-set and the resolved-set are disjoint in every state.
C10_PathResolvedDisjoint == visited \cap resolved_packages = {}

\* A resolved package is reached again while the path is not empty.
C10_Witness ==
    /\ stack # << >>
    /\ Top(stack).pc = "entry"
    /\ Top(stack).package_name \in resolved_packages
    /\ visited # {}

----------------------------------------------------------------------------
(* C11 *)

\* C11: when no cycle is reachable from the start node, the returned order
\* holds exactly the nodes reachable from it (keys and leaves alike), each
\* exactly once.
C11_OrderIsReachableSet ==
    (/\ SortReturned
     /\ Root \in AllNodes(graph)
     /\ ~CycleReachable(graph, Root))
    => /\ sort_result.kind = "ok"
       /\ Range(sort_result.order) = Reach(graph, {Root})
       /\ Len(sort_result.order) = Cardinality(Reach(graph, {Root}))

\* An order of three or more nodes that ends in a leaf without a key,
\* returned for a graph that also has a key out of reach.
C11_Witness ==
    /\ SortReturned
    /\ sort_result.kind = "ok"
    /\ Len(sort_result.order) >= 3
    /\ D \in Range(sort_result.order)
    /\ \E k \in DOMAIN graph : k \notin Reach(graph, {Root}) /\ graph[k] # {}

----------------------------------------------------------------------------
(* C12 *)

\* C12: a start node that is a key or a member of some adjacency set is
\* accepted; one that is neither is reported as not found with an empty
\* order, and nothing is raised.
C12_StartNodeMembership ==
    /\ main_pc # "exit"
    /\ SortReturned =>
          /\ sort_result.kind \in {"ok", "cycle", "notfound"}
          /\ sort_result.kind = "notfound" <=>
                 (Root \notin DOMAIN graph
                  /\ \A k \in DOMAIN graph : Root \notin graph[k])
          /\ sort_result.kind = "notfound" => sort_result.order = << >>

\* The start node is missing from a graph that has edges.
C12_Witness ==
    /\ SortReturned
    /\ sort_result.kind = "notfound"
    /\ \E k \in DOMAIN graph : graph[k] # {}

----------------------------------------------------------------------------
(* C13 *)

\* The document names no version that can be resolved: no "latest"
\* dist-tag, and the "versions" section is missing or empty.
NoResolvableVersion(d) ==
    /\ d.present
    /\ ~(d.has_dist_tags /\ d.has_latest)
    /\ (~d.has_versions \/ d.versions = << >>)

\* C13: for a registry document without a resolvable version the lookup of
\* the direct dependencies returns the empty mapping, whatever the version
\* specifier, and does not end in an error.
C13_NoVersionEmptyMapping ==
    (npm_result.done /\ NoResolvableVersion(npm_data))
    => ~npm_result.raised /\ npm_result.deps = {}

----------------------------------------------------------------------------
(* C14 *)

\* The names of the entries of dependencies.items().
DepNames(deps) == {deps[i].name : i \in 1..Len(deps)}

\* C14: in fixture mode the document is loaded at most once: once
\* test_graph is set it holds the document read by the single load, no
\* later step reads the file or changes the cache, and every later fetch
\* answers with what the cached document lists.
C14_FixtureLoadedOnce ==
    /\ [](test_graph.loaded =>
              fixture_reads = 1 /\ test_graph.doc = registry)
    /\ [][test_graph.loaded =>
              /\ test_graph' = test_graph
              /\ fixture_reads' = fixture_reads
              /\ fetch_count' # fetch_count =>
                     DepNames(Top(stack').dependencies)
                         = Succ(test_graph.doc, Top(stack).package_name)]_vars

\* Three packages were fetched from the fixture with a single load.
C14_Witness ==
    /\ test_graph.loaded
    /\ fixture_reads = 1
    /\ Cardinality({p \in Pkgs : fetch_count[p] > 0}) >= 3

----------------------------------------------------------------------------
(* C15 *)

\* C15: the adjacency set of every package whose expansion has finished
\* and whose fetch succeeded is exactly the set of names the Dependency
\* Source returned for it, whatever became of those names (filtered, on
\* the path, resolved, or at the depth limit).
C15_AdjacencyIsFetchedSet ==
    \A k \in resolved_packages \ fetch_failed :
        k \in DOMAIN graph /\ graph[k] = SourceDeps(k)

\* A finished build in which C lists A, which was on the path, and D,
\* which the filter excludes, and A lists B, which the filter excludes.
C15_Witness ==
    /\ BuildReturned
    /\ params.filter_substring = <<"b">>
    /\ fetch_failed = {}
    /\ Succ(graph, A) = {B, C}
    /\ Succ(graph, C) = {A, D}
    /\ {A, C} \subseteq resolved_packages

----------------------------------------------------------------------------
(* C16 *)

\* The nodes at most n edges away from the set S in g.
RECURSIVE Within(_, _, _)
Within(g, S, n) ==
    IF n = 0 THEN S
    ELSE Within(g, S \cup UNION {Succ(g, x) : x \in S}, n - 1)

\* C16: after a build without filter and without fetch failure every
\* package whose shortest distance from the root is less than max_depth
\* has a key that holds all its direct dependencies.
C16_DepthComplete ==
    (/\ BuildReturned
     /\ params.filter_substring = << >>
     /\ fetch_failed = {}
     /\ params.max_depth >= 1)
    => \A p \in Within(registry, {Root}, params.max_depth - 1) :
           p \in DOMAIN graph /\ graph[p] = SourceDeps(p)

----------------------------------------------------------------------------
(* C17 *)

\* The packages of the call frames whose position is one of pcs.
Expanding(pcs) ==
    {stack[i].package_name : i \in {j \in 1..Len(stack) : stack[j].pc \in pcs}}

\* The build is running or has returned.
BuildStarted == main_pc = "build" \/ BuildReturned

\* C17 as stated: at every point of a build the keys of the graph are the
\* path-set together with the resolved-set and the path-set is the set of
\* packages with an expanding call frame; on return the path-set is empty
\* and the resolved-set is the set of keys.
C17_KeysArePathOrResolved ==
    BuildStarted =>
        /\ DOMAIN graph = visited \cup resolved_packages
        /\ visited = Expanding({"fetch", "loop", "resolve"})
        /\ BuildReturned =>
               visited = {} /\ resolved_packages = DOMAIN graph

\* No call is between its lines 184 and 185.
AtCallBoundary == stack = << >> \/ Top(stack).pc # "resolve"

\* C17 as amended: the same, at every call boundary of the build (where a
\* call of build_dependency_graph_dfs or of the Dependency Source begins
\* or returns), the expanding frames being those that have not yet reached
\* line 184.
C17_KeysArePathOrResolvedAtCalls ==
    (BuildStarted /\ AtCallBoundary) =>
        /\ DOMAIN graph = visited \cup resolved_packages
        /\ visited = Expanding({"fetch", "loop"})
        /\ BuildReturned =>
               visited = {} /\ resolved_packages = DOMAIN graph

\* A nested call begins while its callers are on the path and an earlier
\* sibling is resolved.
C17_Witness ==
    /\ main_pc = "build"
    /\ Len(stack) = 3
    /\ Top(stack).pc = "entry"
    /\ Cardinality(visited) = 2
    /\ resolved_packages # {}

----------------------------------------------------------------------------
(* C18 *)

\* C18: after a build whose root is not filtered out the root is a member
\* of the graph, so the sorter started from the root never reports "not
\* found" and, when it reports no cycle, returns an order that holds the
\* root.
C18_RootInBuiltGraph ==
    (SortReturned /\ ~NameContainsFilter(Root))
    => /\ Root \in AllNodes(graph)
       /\ sort_result.kind # "notfound"
       /\ sort_result.kind = "ok" => Root \in Range(sort_result.order)

====
